---- MODULE Spec2Model ----
(***************************************************************************)
(* Model of the Gemini chat application: the GeminiAgent wrapper           *)
(* (gemini_agent.py) and the Streamlit session that drives it (app.py).    *)
(*                                                                         *)
(* Two specifications are given.  SpecAgent drives one GeminiAgent object  *)
(* through its public methods in any order.  SpecUI is one browser session *)
(* of app.py: every step is one run of the script.                         *)
(*                                                                         *)
(* Python values are represented as follows.                               *)
(*   Optional[str]   None is <<>>, the string s is <<s>>                   *)
(*   dict (usage)    a set of <<key, value>> pairs, {} is the empty dict   *)
(*   Optional[dict]  [none |-> BOOLEAN, map |-> dict]                      *)
(*   list            a sequence                                            *)
(* The only call that is taken to fail is the remote call llm.invoke; the  *)
(* local Streamlit rendering calls and the client constructor are taken    *)
(* not to raise.                                                           *)
(***************************************************************************)
EXTENDS Naturals, Sequences, FiniteSets, TLC

VARIABLES
    env,       \* os.environ['GOOGLE_API_KEY'], "" when unset
    agent,     \* the GeminiAgent object (st.session_state.agent), or NoAgent
    messages,  \* st.session_state.messages, the UI transcript
    widgets,   \* the sidebar widget values the last run read
    rerun,     \* TRUE while a st.rerun() request is pending
    call,      \* observation of the last GeminiAgent method call
    run,       \* observation of the last run of main
    since,     \* what happened to the agent's history since it was last reset
    okLog      \* per transcript exchange: did its remote call succeed

vars == <<env, agent, messages, widgets, rerun, call, run, since, okLog>>

----------------------------------------------------------------------------
(* Bounds of the model *)

\* SpecAgent: successful exchanges the agent's history may hold
MaxExchanges == 3
\* SpecAgent: failed sends counted since the last reset of the history
MaxFailed == 2
\* Spec: exchanges (successful or failed) the UI transcript may hold
MaxTurns == 3

(* Input domains *)
Msgs == {"m1", "m2"}
Replies == {"r1"}
Errors == {"", "quota"}
Prompts == {"", "Be terse"}
Keys == {"k1", "k2"}
model_options == {"gemini-2.0-flash", "gemini-1.5-flash"}
DefaultModel == "gemini-2.0-flash"

None == <<>>
Some(s) == <<s>>
\* Python truthiness of an Optional[str]
Truthy(p) == p # None /\ p[1] # ""

UsageDict == {<<"input_tokens", 1>>, <<"output_tokens", 1>>, <<"total_tokens", 2>>}
NoUsage == [none |-> TRUE, map |-> {}]
Usages == {NoUsage, [none |-> FALSE, map |-> {}], [none |-> FALSE, map |-> UsageDict]}

\* what llm.invoke can do: return a response or raise
Outcomes ==
    [ok : {TRUE}, content : Replies, usage_metadata : Usages, error : {""}]
    \cup [ok : {FALSE}, content : {""}, usage_metadata : {NoUsage}, error : Errors]

\* the outcomes drawn in the UI session: one reply and one failure
UIOutcomes ==
    {o \in Outcomes : IF o.ok THEN o.usage_metadata.map = UsageDict ELSE o.error # ""}

NoAgent == [exists |-> FALSE, model_name |-> "", api_key |-> "", chat_history |-> <<>>]

----------------------------------------------------------------------------
(* gemini_agent.py *)

Turn(role, content) == [role |-> role, content |-> content]
Message(type, content) == [type |-> type, content |-> content]

\* the loop of _build_message_history over self.chat_history
RECURSIVE Replay(_)
Replay(h) ==
    IF h = <<>> THEN <<>>
    ELSE LET msg == Head(h)
             one == IF msg.role = "user" THEN <<Message("human", msg.content)>>
                    ELSE IF msg.role = "assistant" THEN <<Message("ai", msg.content)>>
                    ELSE <<>>
         IN one \o Replay(Tail(h))

\* mutant: the system prompt is added on every call, not only on an empty history
BuildMessageHistoryAlwaysSystem(chat_history, current_message, system_prompt) ==
    LET sys == IF Truthy(system_prompt)
               THEN <<Message("system", system_prompt[1])>>
               ELSE <<>>
    IN sys \o Replay(chat_history) \o <<Message("human", current_message)>>

BuildMessageHistory(chat_history, current_message, system_prompt) ==
    LET sys == IF Truthy(system_prompt) /\ chat_history = <<>>
               THEN <<Message("system", system_prompt[1])>>
               ELSE <<>>
    IN sys \o Replay(chat_history) \o <<Message("human", current_message)>>

\* mutant: only the user turn is stored
UpdateChatHistoryUserOnly(chat_history, user_message, assistant_response) ==
    chat_history \o <<Turn("user", user_message)>>

\* mutant: the two turns are stored assistant first
UpdateChatHistorySwapped(chat_history, user_message, assistant_response) ==
    chat_history \o <<Turn("assistant", assistant_response), Turn("user", user_message)>>

\* mutant: the new exchange is inserted at the front
UpdateChatHistoryPrepend(chat_history, user_message, assistant_response) ==
    <<Turn("user", user_message), Turn("assistant", assistant_response)>> \o chat_history

UpdateChatHistory(chat_history, user_message, assistant_response) ==
    chat_history \o <<Turn("user", user_message), Turn("assistant", assistant_response)>>

\* response.usage_metadata or {}
OrEmpty(u) == IF u.none \/ u.map = {} THEN {} ELSE u.map

ErrorString(e) == "Error: " \o e

\* mutant: the user turn is stored before the remote call is made
SendMessageRecordsFirst(chat_history, message, system_prompt, outcome) ==
    LET msgs == BuildMessageHistory(chat_history, message, system_prompt)
        h1 == chat_history \o <<Turn("user", message)>>
    IN IF outcome.ok
       THEN [chat_history |-> h1 \o <<Turn("assistant", outcome.content)>>,
             response |-> outcome.content,
             usage |-> OrEmpty(outcome.usage_metadata),
             raised |-> None,
             sent |-> msgs]
       ELSE [chat_history |-> h1,
             response |-> ErrorString(outcome.error),
             usage |-> {},
             raised |-> None,
             sent |-> msgs]

\* send_message as a function of the history, its arguments and what the
\* remote call does; the result carries the new history, the returned pair,
\* the exception that escapes the call (None: it returns normally) and the
\* message list handed to llm.invoke
SendMessage(chat_history, message, system_prompt, outcome) ==
    LET msgs == BuildMessageHistory(chat_history, message, system_prompt)
    IN IF outcome.ok
       THEN [chat_history |-> UpdateChatHistory(chat_history, message, outcome.content),
             response |-> outcome.content,
             usage |-> OrEmpty(outcome.usage_metadata),
             raised |-> None,
             sent |-> msgs]
       ELSE [chat_history |-> chat_history,
             response |-> ErrorString(outcome.error),
             usage |-> {},
             raised |-> None,
             sent |-> msgs]

\* mutant: only the last exchange is removed
ClearHistoryDropLast(chat_history) ==
    IF Len(chat_history) >= 2 THEN SubSeq(chat_history, 1, Len(chat_history) - 2)
    ELSE <<>>

ClearHistory(chat_history) == <<>>

GetChatHistory(chat_history) == chat_history

\* GeminiAgent.__init__: raises ValueError when the key is missing
InitRaises(api_key_env) == api_key_env = ""

NewAgent(model_name, api_key_env) ==
    [exists |-> TRUE,
     model_name |-> IF Truthy(model_name) THEN model_name[1] ELSE DefaultModel,
     api_key |-> api_key_env,
     chat_history |-> <<>>]

----------------------------------------------------------------------------
(* Observations kept for stating the properties *)

NoCall ==
    [op |-> "none", pre |-> <<>>, message |-> "", system_prompt |-> None,
     ok |-> FALSE, reply |-> "", error |-> "", sent |-> <<>>, response |-> "",
     usage |-> {}, raised |-> None, ret |-> <<>>]

SendCall(pre, message, system_prompt, outcome, res) ==
    [NoCall EXCEPT !.op = "send", !.pre = pre, !.message = message,
                   !.system_prompt = system_prompt, !.ok = outcome.ok,
                   !.reply = outcome.content, !.error = outcome.error,
                   !.sent = res.sent,
                   !.response = res.response, !.usage = res.usage,
                   !.raised = res.raised]

NoRun ==
    [path |-> "none", trigger |-> "none", prompt |-> None, agent_ready |-> FALSE,
     welcome |-> FALSE, constructed |-> FALSE, handled |-> FALSE,
     had_agent |-> FALSE]

NoWidgets == [api_key |-> "", selected_model |-> DefaultModel, system_prompt |-> ""]

Fresh(how) == [reset |-> how, ok |-> 0, failed |-> 0]

\* the send counters after one more send with the given outcome
Counted(s, ok) ==
    IF ok THEN [s EXCEPT !.ok = @ + 1] ELSE [s EXCEPT !.failed = @ + 1]

\* a send with this outcome stays within the bounds of the model
WithinBounds(chat_history, outcome) ==
    IF outcome.ok THEN Len(chat_history) < 2 * MaxExchanges
    ELSE since.failed < MaxFailed

----------------------------------------------------------------------------
(* The state after the script's top-level statements have run once *)

Init ==
    /\ env \in {"", "k1"}
    /\ agent = NoAgent
    /\ messages = <<>>
    /\ widgets = NoWidgets
    /\ rerun = FALSE
    /\ call = NoCall
    /\ run = NoRun
    /\ since = Fresh("none")
    /\ okLog = <<>>

----------------------------------------------------------------------------
(* SpecAgent: one GeminiAgent object driven through its methods *)

uiVars == <<messages, widgets, rerun, run, okLog>>

AgentInit(model_name) ==
    /\ IF InitRaises(env)
       THEN /\ call' = [NoCall EXCEPT !.op = "init", !.raised = Some("ValueError")]
            /\ UNCHANGED <<agent, since>>
       ELSE /\ agent' = NewAgent(model_name, env)
            /\ call' = [NoCall EXCEPT !.op = "init"]
            /\ since' = Fresh("init")
    /\ UNCHANGED <<env, uiVars>>

AgentSend(message, system_prompt, outcome) ==
    /\ agent.exists
    /\ WithinBounds(agent.chat_history, outcome)
    /\ LET res == SendMessage(agent.chat_history, message, system_prompt, outcome)
       IN /\ agent' = [agent EXCEPT !.chat_history = res.chat_history]
          /\ call' = SendCall(agent.chat_history, message, system_prompt, outcome, res)
          /\ since' = Counted(since, outcome.ok)
    /\ UNCHANGED <<env, uiVars>>

AgentClear ==
    /\ agent.exists
    /\ agent' = [agent EXCEPT !.chat_history = ClearHistory(@)]
    /\ call' = [NoCall EXCEPT !.op = "clear", !.pre = agent.chat_history]
    /\ since' = Fresh("clear")
    /\ UNCHANGED <<env, uiVars>>

AgentGet ==
    /\ agent.exists
    /\ call' = [NoCall EXCEPT !.op = "get", !.pre = agent.chat_history,
                              !.ret = GetChatHistory(agent.chat_history)]
    /\ UNCHANGED <<env, agent, since, uiVars>>

SystemPrompts == {None} \cup {Some(p) : p \in Prompts}
ModelNames == {None} \cup {Some(m) : m \in model_options}

NextAgent ==
    \/ \E model_name \in ModelNames : AgentInit(model_name)
    \/ \E message \in Msgs, system_prompt \in SystemPrompts, outcome \in Outcomes :
          AgentSend(message, system_prompt, outcome)
    \/ AgentClear
    \/ AgentGet

SpecAgent == Init /\ [][NextAgent]_vars

----------------------------------------------------------------------------
(* app.py *)

UserEntry(content) == [role |-> "user", content |-> content]
AssistantEntry(content, usage_metadata) ==
    [role |-> "assistant", content |-> content, usage_metadata |-> usage_metadata]
ErrorEntry(content) == [role |-> "assistant", content |-> content]

\* clear_chat, up to its st.rerun(): the transcript and the session agent after it
ClearChat(msgs, ag) ==
    [messages |-> <<>>,
     cleared |-> ag.exists,
     agent |-> NoAgent,
     rerun |-> TRUE]

\* mutant: an existing agent is reported ready without looking at the key
InitializeAgentKeepsReady(environ, ag, api_key, model_name) ==
    IF ag.exists
    THEN [ready |-> TRUE, env |-> environ, agent |-> ag, constructed |-> FALSE]
    ELSE IF api_key = ""
         THEN [ready |-> FALSE, env |-> environ, agent |-> ag, constructed |-> FALSE]
         ELSE [ready |-> TRUE, env |-> api_key,
               agent |-> NewAgent(Some(model_name), api_key), constructed |-> TRUE]

\* mutant: the agent is constructed again when the selected model changed
InitializeAgentRebuilds(environ, ag, api_key, model_name) ==
    IF api_key = ""
    THEN [ready |-> FALSE, env |-> environ, agent |-> ag, constructed |-> FALSE]
    ELSE IF ~ag.exists \/ ag.model_name # model_name
         THEN [ready |-> TRUE, env |-> api_key,
               agent |-> NewAgent(Some(model_name), api_key), constructed |-> TRUE]
         ELSE [ready |-> TRUE, env |-> api_key, agent |-> ag, constructed |-> FALSE]

\* initialize_agent: the value it returns, the environment and the session
\* agent after it, and whether it called the constructor
InitializeAgent(environ, ag, api_key, model_name) ==
    IF api_key = ""
    THEN [ready |-> FALSE, env |-> environ, agent |-> ag, constructed |-> FALSE]
    ELSE IF ~ag.exists
         THEN IF InitRaises(api_key)
              THEN [ready |-> FALSE, env |-> api_key, agent |-> NoAgent,
                    constructed |-> FALSE]
              ELSE [ready |-> TRUE, env |-> api_key,
                    agent |-> NewAgent(Some(model_name), api_key),
                    constructed |-> TRUE]
         ELSE [ready |-> TRUE, env |-> api_key, agent |-> ag, constructed |-> FALSE]

\* the second argument handle_user_input gives send_message; msgs is the
\* transcript with the new user entry already appended
SystemPromptArg(msgs, system_prompt) ==
    LET is_first_message == Len(msgs) = 1
    IN IF system_prompt # "" /\ is_first_message THEN Some(system_prompt) ELSE None

\* mutant: the assistant entry is stored only when usage metadata came back
HandleUserInputDropsError(msgs, ag, prompt, system_prompt, outcome) ==
    LET msgs1 == Append(msgs, UserEntry(prompt))
        arg == SystemPromptArg(msgs1, system_prompt)
        res == SendMessage(ag.chat_history, prompt, arg, outcome)
    IN [messages |->
            IF res.usage # {}
            THEN Append(msgs1, AssistantEntry(res.response, res.usage))
            ELSE msgs1,
        agent |-> [ag EXCEPT !.chat_history = res.chat_history],
        call |-> SendCall(ag.chat_history, prompt, arg, outcome, res)]

\* handle_user_input: the transcript and the agent's history after it, and
\* the send_message call it made
HandleUserInput(msgs, ag, prompt, system_prompt, outcome) ==
    LET msgs1 == Append(msgs, UserEntry(prompt))
        arg == SystemPromptArg(msgs1, system_prompt)
        res == SendMessage(ag.chat_history, prompt, arg, outcome)
    IN [messages |->
            IF res.raised = None
            THEN Append(msgs1, AssistantEntry(res.response, res.usage))
            ELSE Append(msgs1, ErrorEntry(ErrorString(res.raised[1]))),
        agent |-> [ag EXCEPT !.chat_history = res.chat_history],
        call |-> SendCall(ag.chat_history, prompt, arg, outcome, res)]

WidgetValues ==
    [api_key : {""} \cup Keys, selected_model : model_options, system_prompt : Prompts]

\* what a run did: the path main() took, what started it, the prompt that was
\* submitted, what initialize_agent returned, whether the welcome message was
\* shown, whether the constructor was called, whether handle_user_input ran
\* and whether the session held an agent when the run began
RunOf(trigger, path, prompt, ia, had) ==
    [NoRun EXCEPT !.path = path, !.trigger = trigger, !.prompt = prompt,
                  !.agent_ready = ia.ready, !.welcome = (path = "welcome"),
                  !.constructed = ia.constructed, !.handled = (path = "chat"),
                  !.had_agent = had]

NotCalled == [ready |-> FALSE, env |-> env, agent |-> agent, constructed |-> FALSE]

\* one run of main() in which setup_sidebar sees the Clear Chat button
\* clicked: clear_chat runs and st.rerun() ends the run
MainClear(w) ==
    LET cc == ClearChat(messages, agent)
    IN /\ widgets' = w
       /\ messages' = cc.messages
       /\ agent' = cc.agent
       /\ rerun' = cc.rerun
       /\ call' = IF cc.cleared
                  THEN [NoCall EXCEPT !.op = "clear", !.pre = agent.chat_history]
                  ELSE NoCall
       /\ run' = RunOf("user", "clear", None, NotCalled, agent.exists)
       /\ since' = Fresh("clear")
       /\ okLog' = <<>>
       /\ UNCHANGED env

\* one run of main() past setup_sidebar; prompt is what st.chat_input would
\* return if the run reached it (None: nothing was submitted)
Main(w, trigger, prompt, outcome) ==
    LET ia == InitializeAgent(env, agent, w.api_key, w.selected_model)
        born == IF ia.constructed THEN Fresh("init") ELSE since
    IN /\ widgets' = w
       /\ rerun' = FALSE
       /\ env' = ia.env
       /\ IF ~ia.ready
          THEN \* show_welcome_message(); return
               /\ agent' = ia.agent
               /\ run' = RunOf(trigger, "welcome", prompt, ia, agent.exists)
               /\ call' = NoCall
               /\ since' = born
               /\ UNCHANGED <<messages, okLog>>
          ELSE IF prompt = None
          THEN \* display_chat_messages(); no input
               /\ agent' = ia.agent
               /\ run' = RunOf(trigger, "idle", prompt, ia, agent.exists)
               /\ call' = NoCall
               /\ since' = born
               /\ UNCHANGED <<messages, okLog>>
          ELSE LET h == HandleUserInput(messages, ia.agent, prompt[1],
                                        w.system_prompt, outcome)
               IN /\ agent' = h.agent
                  /\ messages' = h.messages
                  /\ call' = h.call
                  /\ run' = RunOf(trigger, "chat", prompt, ia, agent.exists)
                  /\ since' = Counted(born, outcome.ok)
                  /\ okLog' = Append(okLog, outcome.ok)

Ready(w) == InitializeAgent(env, agent, w.api_key, w.selected_model).ready
Prompts_in == {None} \cup {Some(m) : m \in Msgs}
NoOutcome == CHOOSE o \in Outcomes : ~o.ok

\* the user clicks Clear Chat
UserClear(w) ==
    /\ ~rerun
    /\ MainClear(w)

\* a run that ends at the welcome message; a submitted prompt is not read
UserWelcome(w, prompt) ==
    /\ ~rerun
    /\ ~Ready(w)
    /\ Main(w, "user", prompt, NoOutcome)

\* a run caused by a sidebar widget (or the page load), nothing submitted
UserIdle(w) ==
    /\ ~rerun
    /\ Ready(w)
    /\ Main(w, "user", None, NoOutcome)

\* the user submits a prompt in the chat input
UserChat(w, message, outcome) ==
    /\ ~rerun
    /\ Ready(w)
    /\ Len(messages) < 2 * MaxTurns
    /\ Main(w, "user", Some(message), outcome)

\* the run st.rerun() starts: same widget values, no button, no input
Rerun ==
    /\ rerun
    /\ Main(widgets, "rerun", None, NoOutcome)

Next ==
    \/ \E w \in WidgetValues : UserClear(w)
    \/ \E w \in WidgetValues, prompt \in Prompts_in : UserWelcome(w, prompt)
    \/ \E w \in WidgetValues : UserIdle(w)
    \/ \E w \in WidgetValues, message \in Msgs, outcome \in UIOutcomes :
          UserChat(w, message, outcome)
    \/ Rerun

Spec == Init /\ [][Next]_vars

----------------------------------------------------------------------------
(* Properties of the agent, checked under SpecAgent *)

IsPrefix(a, b) == Len(a) <= Len(b) /\ SubSeq(b, 1, Len(a)) = a

\* the system instruction is due: empty history and a non-empty prompt
SystemDue(c) ==
    c.pre = <<>> /\ c.system_prompt # None /\ c.system_prompt[1] # ""

\* C1: the message list send_message hands to the remote call is the system
\* instruction (exactly when the history is empty and the prompt is non-empty),
\* then every stored turn in order with user as human and assistant as AI,
\* then the new user message; its length is len(H)+1, plus 1 with the
\* system instruction.
C1_MessageList ==
    call.op = "send" =>
        LET H == call.pre
            s == call.sent
            off == IF SystemDue(call) THEN 1 ELSE 0
        IN /\ Len(s) = Len(H) + 1 + off
           /\ SystemDue(call) => s[1] = [type |-> "system", content |-> call.system_prompt[1]]
           /\ (\E i \in 1..Len(s) : s[i].type = "system") <=> SystemDue(call)
           /\ \A i \in 1..Len(H) :
                 /\ H[i].role \in {"user", "assistant"}
                 /\ s[off + i].content = H[i].content
                 /\ s[off + i].type = (IF H[i].role = "user" THEN "human" ELSE "ai")
           /\ s[Len(s)] = [type |-> "human", content |-> call.message]

\* the second call of the example: a prompt is supplied, the history holds
\* one exchange, and the list has three messages and no system instruction
C1_Witness ==
    /\ call.op = "send"
    /\ call.pre = <<[role |-> "user", content |-> "m1"],
                    [role |-> "assistant", content |-> "r1"]>>
    /\ call.system_prompt = <<"Be terse">>
    /\ call.message = "m2"
    /\ Len(call.sent) = 3

\* C2: when the remote call fails, send_message does not raise, returns a
\* non-empty error string with an empty usage map, and leaves the history as
\* it was.
C2_FailureLeavesHistory ==
    (call.op = "send" /\ ~call.ok) =>
        /\ call.raised = <<>>
        /\ call.response # ""
        /\ call.usage = {}
        /\ agent.chat_history = call.pre

\* a failed send on a non-empty history whose exception has an empty message
C2_Witness ==
    /\ call.op = "send"
    /\ ~call.ok
    /\ call.error = ""
    /\ Len(call.pre) = 4

\* C3: after N successful sends on a fresh or just-cleared agent the history
\* has length 2N, whatever failed sends came in between.
C3_LengthTwiceSuccesses ==
    agent.exists => Len(agent.chat_history) = 2 * since.ok

\* two successes and two failures since the last reset
C3_Witness ==
    /\ agent.exists
    /\ since.ok = 2
    /\ since.failed = 2
    /\ call.op = "send"
    /\ call.ok
    /\ Len(agent.chat_history) = 4

\* C4: the history has even length, holds only user and assistant turns and
\* alternates starting with user, so it ends with an assistant turn.
C4_Alternation ==
    agent.exists =>
        LET h == agent.chat_history
        IN /\ Len(h) % 2 = 0
           /\ \A i \in 1..Len(h) :
                 h[i].role = (IF i % 2 = 1 THEN "user" ELSE "assistant")
           /\ h # <<>> => h[Len(h)].role = "assistant"

\* a successful send whose call carried the system instruction
C4_Witness ==
    /\ call.op = "send"
    /\ call.ok
    /\ Len(call.sent) = 2
    /\ call.sent[1].type = "system"
    /\ Len(agent.chat_history) = 2

\* C5: a successful send appends {user, m} then {assistant, r} and changes no
\* stored turn; no method other than clear_history removes, reorders or
\* rewrites a turn.
C5_AppendOnly ==
    [][(agent.exists /\ agent'.exists /\ call'.op \notin {"init", "clear"}) =>
          LET h == agent.chat_history
              g == agent'.chat_history
          IN /\ IsPrefix(h, g)
             /\ (call'.op = "send" /\ call'.ok) =>
                    g = h \o <<[role |-> "user", content |-> call'.message],
                               [role |-> "assistant", content |-> call'.reply]>>
             /\ ~(call'.op = "send" /\ call'.ok) => g = h]_vars

\* a successful send on a history that already holds two exchanges
C5_Witness ==
    /\ call.op = "send"
    /\ call.ok
    /\ Len(call.pre) = 4
    /\ Len(agent.chat_history) = 6

\* what the first send on an empty history does
FirstSendAsFresh ==
    /\ call.pre = <<>>
    /\ call.sent =
         (IF call.system_prompt # <<>> /\ call.system_prompt[1] # ""
          THEN <<[type |-> "system", content |-> call.system_prompt[1]]>>
          ELSE <<>>) \o <<[type |-> "human", content |-> call.message]>>
    /\ agent.chat_history =
         (IF call.ok
          THEN <<[role |-> "user", content |-> call.message],
                 [role |-> "assistant", content |-> call.reply]>>
          ELSE <<>>)

\* C6: clear_history empties the history from any state; get_chat_history
\* then returns the empty list and a following send (the first, or one that
\* follows only failed sends) behaves as on a freshly constructed agent.
C6_ClearResets ==
    /\ call.op = "clear" => agent.chat_history = <<>>
    /\ (call.op = "get" /\ since.reset = "clear" /\ since.ok = 0) => call.ret = <<>>
    /\ (call.op = "send" /\ since.reset \in {"init", "clear"}
          /\ since.ok = (IF call.ok THEN 1 ELSE 0)) => FirstSendAsFresh

\* the first send after a clear, with a system prompt, succeeding
C6_Witness ==
    /\ call.op = "send"
    /\ since.reset = "clear"
    /\ since.ok = 1
    /\ since.failed = 0
    /\ call.ok
    /\ Len(call.sent) = 2
    /\ call.sent[1].type = "system"

----------------------------------------------------------------------------
(* Properties of the UI session, checked under Spec *)

C8_SystemPromptWhenHistoryEmpty ==
    [][(widgets.system_prompt # "" /\ widgets'.system_prompt = widgets.system_prompt
          /\ run'.path = "chat" /\ call'.op = "send" /\ call'.pre = <<>>) =>
          /\ Len(call'.sent) = 2
          /\ call'.sent[1] = [type |-> "system", content |-> widgets'.system_prompt]]_vars

\* the exchanges of the transcript whose remote call succeeded, as turns
RECURSIVE Succeeded(_, _)
Succeeded(msgs, oks) ==
    IF oks = <<>> \/ Len(msgs) < 2 THEN <<>>
    ELSE (IF Head(oks)
          THEN <<[role |-> msgs[1].role, content |-> msgs[1].content],
                 [role |-> msgs[2].role, content |-> msgs[2].content]>>
          ELSE <<>>) \o Succeeded(Tail(Tail(msgs)), Tail(oks))

ErrorStrings == {"Error: " \o e : e \in Errors}

\* C9: the transcript has even length and alternates user/assistant; the
\* agent's history is the transcript restricted to the exchanges whose remote
\* call succeeded, in order; the lengths are equal exactly when no send has
\* failed since the last clear; a failed exchange holds the error string in
\* the transcript and is never replayed to the remote service.
C9_TranscriptAndHistory ==
    /\ Len(messages) % 2 = 0
    /\ 2 * Len(okLog) = Len(messages)
    /\ \A i \in 1..Len(messages) :
          messages[i].role = (IF i % 2 = 1 THEN "user" ELSE "assistant")
    /\ ~agent.exists => messages = <<>>
    /\ agent.chat_history = Succeeded(messages, okLog)
    /\ Len(agent.chat_history) <= Len(messages)
    /\ (Len(agent.chat_history) = Len(messages)) <=> (\A i \in 1..Len(okLog) : okLog[i])
    /\ \A i \in 1..Len(okLog) :
          ~okLog[i] =>
             /\ 2 * i <= Len(messages)
             /\ messages[2 * i].content \in ErrorStrings
             /\ \A j \in 1..Len(agent.chat_history) :
                   agent.chat_history[j].content # messages[2 * i].content
    /\ call.op = "send" =>
          \A j \in 1..Len(call.sent) : call.sent[j].content \notin ErrorStrings

\* success, failure, success: the history holds the first and third exchange
C9_Witness ==
    /\ okLog = <<TRUE, FALSE, TRUE>>
    /\ Len(messages) = 6
    /\ Len(agent.chat_history) = 4
    /\ call.op = "send"
    /\ Len(call.sent) = 3

\* C10: once the session holds an agent, no run but one that clicks Clear
\* Chat replaces or drops it: its model, its key and its history stay and it
\* serves the turn, whatever the widgets now say; Clear Chat leaves no agent,
\* and a run with a non-empty key that finds none constructs one with the
\* selected model and an empty history.
C10_OneAgentPerSession ==
    [][/\ (agent.exists /\ run'.path # "clear") =>
             /\ agent'.exists
             /\ ~run'.constructed
             /\ agent'.model_name = agent.model_name
             /\ agent'.api_key = agent.api_key
             /\ IsPrefix(agent.chat_history, agent'.chat_history)
             /\ run'.handled => call'.pre = agent.chat_history
       /\ run'.path = "clear" => ~agent'.exists
       /\ (~agent.exists /\ run'.path # "clear" /\ widgets'.api_key # "") =>
             /\ agent'.exists
             /\ run'.constructed
             /\ agent'.model_name = widgets'.selected_model
             /\ agent'.api_key = widgets'.api_key
             /\ run'.handled => call'.pre = <<>>
             /\ ~run'.handled => agent'.chat_history = <<>>]_vars

\* a turn served by an agent built with another model and another key than
\* the sidebar now shows
C10_Witness ==
    /\ run.path = "chat"
    /\ agent.exists
    /\ widgets.api_key # ""
    /\ agent.api_key # widgets.api_key
    /\ agent.model_name # widgets.selected_model
    /\ Len(call.pre) = 2
    /\ Len(agent.chat_history) = 4

====
